---- MODULE Spec2Model ----
(***************************************************************************)
(* A model of tools/flint.h: the trace encoder (binary and JSON), its      *)
(* write buffer and the Context lifecycle.                                 *)
(*                                                                         *)
(* Bytes are naturals 0..255 and a file, a buffer or a payload is a        *)
(* sequence of bytes.  A double is modelled by a whole number below 32     *)
(* together with its IEEE-754 little-endian image (F64), a uint32 by its   *)
(* little-endian image (LE32).  Every stdio call takes an outcome chosen   *)
(* by the environment: "ok", "fail" (nothing transferred) or "short" (the  *)
(* first half transferred).                                                *)
(***************************************************************************)
EXTENDS Integers, Sequences, FiniteSets, TLC

VARIABLES
    ctx,     \* the caller's FlintContext
    wb,      \* the caller's FlintWriteBuffer
    file,    \* the FILE stream and the bytes of the file behind it
    last,    \* the call that has just returned: its name, arguments and return
             \* value, until the caller has looked at them (NoCall otherwise)
    log,     \* history: the arguments of the Begin/End calls that returned true
    sent,    \* history: the bytes those calls emitted, concatenated in call order
    mode,    \* history: "none" before Init, then the format Init was asked for
    bufs,    \* history: the buffers (NULL or not) given to Flint__BufferWrite
    dropped  \* history: a flush has reset the cursor without writing held bytes

vars == <<ctx, wb, file, last, log, sent, mode, bufs, dropped>>

----------------------------------------------------------------------------
(* Bounds of the model *)

\* Begin/End calls that return true, per behaviour
MaxCalls == 2
\* failing stdio calls per behaviour
MaxFaults == 1
\* largest capacity and payload size of the Write Buffer specification (SpecBW)
MaxCap == 2
\* Flint__BufferWrite calls per behaviour of SpecBW
MaxWrites == 3
\* length of the long name passed by the caller (above the 255 limit)
LongLen == 1000

\* capacities of the caller's Write Buffer: one End record exactly (a Begin
\* record exceeds it), and room for one record of maximal size and a short one
WbLengths == {17, 300}
\* (tid, pid) pairs passed by the caller
TidPids == {<<1, 513>>}
\* timestamp units passed to Init
Units == {2}

----------------------------------------------------------------------------
(* Bytes, integers and doubles *)

Min(a, b) == IF a < b THEN a ELSE b

Take(s, n) == SubSeq(s, 1, Min(n, Len(s)))

Drop(s, n) == SubSeq(s, n + 1, Len(s))

Pow2(e) == CASE e = 0 -> 1 [] e = 1 -> 2 [] e = 2 -> 4 [] e = 3 -> 8 [] OTHER -> 16

\* floor(log2 v) for 1 <= v < 32
Log2(v) == CASE v < 2 -> 0 [] v < 4 -> 1 [] v < 8 -> 2 [] v < 16 -> 3 [] OTHER -> 4

\* the object representation of a uint32_t / uint64_t (little-endian host)
LE32(x) == <<x % 256, (x \div 256) % 256, (x \div 65536) % 256, (x \div 16777216) % 256>>

LE64(x) == LE32(x) \o <<0, 0, 0, 0>>

\* the object representation of a double holding the whole number v < 32:
\* sign 0, biased exponent 1023 + e, the 52-bit fraction (v - 2^e) * 2^(52-e)
F64(v) ==
    IF v = 0 THEN <<0, 0, 0, 0, 0, 0, 0, 0>>
    ELSE LET e == Log2(v)
             top4 == ((v - Pow2(e)) * 16) \div Pow2(e)
             bexp == 1023 + e
         IN <<0, 0, 0, 0, 0, 0, (bexp % 16) * 16 + top4, bexp \div 16>>

\* the casts (uint8_t)x and (int)x of a small value
U8(x) == x % 256

RECURSIVE Digits(_)
Digits(n) == IF n < 10 THEN <<48 + n>> ELSE Digits(n \div 10) \o <<48 + (n % 10)>>

\* printf's %u, %f (of a whole number) and %.*s
PctU(n) == Digits(n)

PctF(v) == Digits(v) \o <<46, 48, 48, 48, 48, 48, 48>>

\* the index of the first zero byte of mem in lo..hi, hi + 1 if there is none
RECURSIVE FirstZero(_, _, _)
FirstZero(mem, lo, hi) ==
    IF lo > hi THEN lo
    ELSE IF lo = hi THEN (IF mem[lo] = 0 THEN lo ELSE lo + 1)
    ELSE LET mid == (lo + hi) \div 2
         IN IF \A i \in lo..mid : mem[i] # 0
            THEN FirstZero(mem, mid + 1, hi)
            ELSE FirstZero(mem, lo, mid)

\* the number of bytes of mem before its first zero byte (all of them if none)
StrLen(mem) == FirstZero(mem, 1, Len(mem)) - 1

PctS(prec, mem) == LET m == Take(mem, prec) IN Take(m, StrLen(m))

----------------------------------------------------------------------------
(* The stdio stream.  file.bytes is the content of the file, file.pos the  *)
(* stream position, file.err the error indicator, file.open whether the    *)
(* stream is open; file.fails counts the stdio calls that failed and       *)
(* file.closes the fclose calls.                                           *)

\* the oracle of one call: at most one stdio call of it fails
NoFault == [site |-> "none", how |-> "ok"]

Fault(sites) == {NoFault} \cup [site : sites, how : {"fail", "short"}]

Out(io, site) == IF io.site = site THEN io.how ELSE "ok"

WriteAt(bytes, pos, p) ==
    SubSeq(bytes, 1, pos) \o p \o SubSeq(bytes, pos + Len(p) + 1, Len(bytes))

\* the bytes a write of p transfers: all of them, none, or the first half
Transferred(p, o) ==
    CASE o = "ok" -> p
      [] o = "fail" -> <<>>
      [] OTHER -> Take(p, Len(p) \div 2)

\* a write that always lands at the start of the file
Mutant_Put_AtStart(f, p, o) ==
    LET t == Transferred(p, o)
    IN [f EXCEPT !.bytes = WriteAt(@, 0, t),
                 !.pos = Len(t),
                 !.err = @ \/ o # "ok",
                 !.fails = @ + (IF o = "ok" THEN 0 ELSE 1)]

Put(f, p, o) ==
    LET t == Transferred(p, o)
    IN [f EXCEPT !.bytes = WriteAt(@, f.pos, t),
                 !.pos = @ + Len(t),
                 !.err = @ \/ o # "ok",
                 !.fails = @ + (IF o = "ok" THEN 0 ELSE 1)]

\* fwrite(p, n, 1, f): the number of whole items written
fwrite(f, p, o) == [f |-> Put(f, p, o), ret |-> IF o = "ok" THEN 1 ELSE 0]

\* fprintf(f, ...): the number of bytes written, negative on failure
fprintf(f, text, o) == [f |-> Put(f, text, o), ret |-> IF o = "ok" THEN Len(text) ELSE -1]

\* fflush(f): 0 on success, EOF on failure
fflush(f, o) ==
    [f |-> [f EXCEPT !.err = @ \/ o # "ok", !.fails = @ + (IF o = "ok" THEN 0 ELSE 1)],
     ret |-> IF o = "ok" THEN 0 ELSE -1]

\* fseek(f, off, SEEK_CUR)
fseek(f, off, o) ==
    IF o = "ok" /\ f.pos + off >= 0
    THEN [f EXCEPT !.pos = @ + off]
    ELSE [f EXCEPT !.fails = @ + 1]

fclose(f) == [f EXCEPT !.open = FALSE, !.err = FALSE, !.closes = @ + 1]

\* a stream opened "wb" is never read: its end-of-file indicator stays clear
feof(f) == FALSE

\* a stream whose error indicator is never seen set
Mutant_ferror_Clear(f) == FALSE

\* ferror(f): the error indicator, set by a failed write or flush and cleared
\* by nothing the library calls
ferror(f) == f.err

NoFile == [bytes |-> <<>>, pos |-> 0, err |-> FALSE, open |-> FALSE, fails |-> 0, closes |-> 0]

\* fopen(filename, "wb"): the file is created or truncated
fopen(f, o) ==
    IF o = "ok"
    THEN [f |-> [f EXCEPT !.bytes = <<>>, !.pos = 0, !.err = FALSE, !.open = TRUE], ret |-> 1]
    ELSE [f |-> [f EXCEPT !.fails = @ + 1], ret |-> 0]

----------------------------------------------------------------------------
(* The Write Buffer *)

\* a FlintWriteBuffer of the given capacity over zeroed storage
NewBuffer(n) == [length |-> n, head |-> 0, data |-> [i \in 1..n |-> 0]]

\* FlintWriteBuffer wb_ = {0}
wb_ == [length |-> 0, head |-> 0, data |-> <<>>]

\* the bytes the buffer holds
Held(w) == SubSeq(w.data, 1, w.head)

\* memcpy((char *)wb->data + wb->head, p, n)
MemcpyAt(data, at, p) ==
    SubSeq(data, 1, at) \o p \o SubSeq(data, at + Len(p) + 1, Len(data))

\* a flush that forgets to reset the cursor
Mutant_BufferFlush_KeepsHead(w, f, o) ==
    IF w.head = 0 THEN [wb |-> w, f |-> f, ret |-> TRUE]
    ELSE LET r == fwrite(f, Held(w), o)
         IN [wb |-> w, f |-> r.f, ret |-> r.ret = 1]

Flint__BufferFlush(w, f, o) ==
    IF w.head = 0 THEN [wb |-> w, f |-> f, ret |-> TRUE]
    ELSE LET r == fwrite(f, Held(w), o)
         IN IF r.ret # 1
            THEN [wb |-> w, f |-> r.f, ret |-> FALSE]
            ELSE [wb |-> [w EXCEPT !.head = 0], f |-> r.f, ret |-> TRUE]

\* a write that sends an oversized payload to the sink before the held bytes
Mutant_BufferWrite_DirectFirst(w, f, p, io) ==
    IF Len(p) > w.length
    THEN LET r == fwrite(f, p, Out(io, "write"))
         IN [wb |-> w, f |-> r.f, ret |-> r.ret # 0]
    ELSE LET fl == IF w.head + Len(p) > w.length
                   THEN Flint__BufferFlush(w, f, Out(io, "flush"))
                   ELSE [wb |-> w, f |-> f, ret |-> TRUE]
         IN IF ~fl.ret THEN [wb |-> fl.wb, f |-> fl.f, ret |-> FALSE]
            ELSE [wb |-> [fl.wb EXCEPT !.data = MemcpyAt(@, fl.wb.head, p),
                                       !.head = @ + Len(p)],
                  f |-> fl.f, ret |-> TRUE]

\* a write that empties the buffer when the flush before it fails
Mutant_BufferWrite_DropsOnFailedFlush(w, f, p, io) ==
    LET n == Len(p)
        fl == IF w.head + n > w.length
              THEN Flint__BufferFlush(w, f, Out(io, "flush"))
              ELSE [wb |-> w, f |-> f, ret |-> TRUE]
    IN IF ~fl.ret THEN [wb |-> [fl.wb EXCEPT !.head = 0], f |-> fl.f, ret |-> FALSE]
       ELSE IF n > w.length
            THEN LET r == fwrite(fl.f, p, Out(io, "write"))
                 IN [wb |-> fl.wb, f |-> r.f, ret |-> r.ret # 0]
            ELSE [wb |-> [fl.wb EXCEPT !.data = MemcpyAt(@, fl.wb.head, p),
                                       !.head = @ + n],
                  f |-> fl.f, ret |-> TRUE]

Flint__BufferWrite(w, f, p, io) ==
    LET n == Len(p)
        fl == IF w.head + n > w.length
              THEN Flint__BufferFlush(w, f, Out(io, "flush"))
              ELSE [wb |-> w, f |-> f, ret |-> TRUE]
    IN IF ~fl.ret THEN [wb |-> fl.wb, f |-> fl.f, ret |-> FALSE]
       ELSE IF n > w.length
            THEN LET r == fwrite(fl.f, p, Out(io, "write"))
                 IN [wb |-> fl.wb, f |-> r.f, ret |-> r.ret # 0]
            ELSE [wb |-> [fl.wb EXCEPT !.data = MemcpyAt(@, fl.wb.head, p),
                                       !.head = @ + n],
                  f |-> fl.f, ret |-> TRUE]

----------------------------------------------------------------------------
(* Records of the binary format and text of the JSON format *)

\* sizeof(FlintHeader), sizeof(FlintBeginEvent), sizeof(FlintEndEvent) under
\* #pragma pack(1), and FlintEventType_Begin / FlintEventType_End
SizeofHeader == 25
SizeofBeginEvent == 19
SizeofEndEvent == 17
FlintEventType_Begin == 2
FlintEventType_End == 3
\* the longest name a FlintString carries
MaxNameLen == 255
\* header.magic_header
Magic == 195948557

\* a header without its last field
Mutant_HeaderBytes_NoReserved(unit, reserved) == LE64(Magic) \o LE64(0) \o F64(unit)

\* the bytes of a FlintHeader; reserved is never assigned
HeaderBytes(unit, reserved) == LE64(Magic) \o LE64(0) \o F64(unit) \o <<reserved>>

\* a Begin record with pid and tid in each other's place
Mutant_BeginEventBytes_TidFirst(ev) ==
    <<ev.type>> \o LE32(ev.tid) \o LE32(ev.pid) \o F64(ev.when) \o <<ev.length>> \o ev.bytes

\* the bytes of a FlintBeginEventMax: event.type .. event.name.length, then
\* event.name.bytes[1] and name_bytes[254]
BeginEventBytes(ev) ==
    <<ev.type>> \o LE32(ev.pid) \o LE32(ev.tid) \o F64(ev.when) \o <<ev.length>> \o ev.bytes

\* the bytes of a FlintEndEvent
EndEventBytes(ev) == <<ev.type>> \o LE32(ev.pid) \o LE32(ev.tid) \o F64(ev.when)

\* "{\"traceEvents\":[\n" and "\n]}\n"
JsonPrologue == <<123, 34, 116, 114, 97, 99, 101, 69, 118, 101, 110, 116, 115, 34, 58, 91, 10>>

JsonEpilogue == <<10, 93, 125, 10>>

\* the pieces of "{\"name\":\"%.*s\",\"ph\":\"B\",\"pid\":%u,\"tid\":%u,\"ts\":%f},\n"
\* and of "{\"ph\":\"E\",\"pid\":%u,\"tid\":%u,\"ts\":%f},\n"
JsonBeginHead == <<123, 34, 110, 97, 109, 101, 34, 58, 34>>

JsonBeginMid == <<34, 44, 34, 112, 104, 34, 58, 34, 66, 34, 44, 34, 112, 105, 100, 34, 58>>

JsonEndHead == <<123, 34, 112, 104, 34, 58, 34, 69, 34, 44, 34, 112, 105, 100, 34, 58>>

JsonTid == <<44, 34, 116, 105, 100, 34, 58>>

JsonTs == <<44, 34, 116, 115, 34, 58>>

JsonTail == <<125, 44, 10>>

\* the text after the name of a Begin object, and the whole End object
JsonBeginRest(pid, tid, ts) ==
    JsonBeginMid \o PctU(pid) \o JsonTid \o PctU(tid) \o JsonTs \o PctF(ts) \o JsonTail

JsonEndText(pid, tid, ts) ==
    JsonEndHead \o PctU(pid) \o JsonTid \o PctU(tid) \o JsonTs \o PctF(ts) \o JsonTail

----------------------------------------------------------------------------
(* The caller's names.  A name is a pointer: NULL, or a null-terminated    *)
(* string.                                                                 *)

NameIds == {"null", "empty", "A", "long"}

\* the bytes of the string before its terminator
LongName == [i \in 1..LongLen |-> 97 + (i % 26)]

NameStr(id) ==
    CASE id = "A" -> <<65>>
      [] id = "long" -> LongName
      [] OTHER -> <<>>

IsNull(id) == id = "null"

\* strlen(name)
strlen(id) == Len(NameStr(id))

\* what an uninitialised FlintString.bytes / name_bytes array may hold
StackJunk ==
    { [i \in 1..MaxNameLen |-> 0],
      [i \in 1..MaxNameLen |-> 120],
      [i \in 1..MaxNameLen |-> IF i = 1 THEN 65 ELSE 0] }

\* the array is read before it is written only when the Context is in JSON mode
JunkOf(c) == IF c.is_json # 0 THEN StackJunk ELSE {[i \in 1..MaxNameLen |-> 0]}

\* what an uninitialised byte may hold
JunkBytes == {0, 204}

----------------------------------------------------------------------------
(* The Context *)

Inert == [file |-> 0, timestamp_unit |-> 0, is_json |-> 0]

IsOpen(c) == c.file # 0

\* a FlintQuit that closes the file but leaves the Context as it was
Mutant_FlintQuit_NoReset(c, cnull, f, io) ==
    IF cnull THEN [ctx |-> c, f |-> f]
    ELSE IF c.file # 0 THEN [ctx |-> c, f |-> fclose(f)]
         ELSE [ctx |-> Inert, f |-> f]

FlintQuit(c, cnull, f, io) ==
    IF cnull THEN [ctx |-> c, f |-> f]
    ELSE IF c.file # 0
         THEN LET f1 == IF c.is_json # 0
                        THEN fprintf(fseek(f, -2, Out(io, "seek")), JsonEpilogue,
                                     Out(io, "print")).f
                        ELSE f
              IN [ctx |-> Inert, f |-> fclose(f1)]
         ELSE [ctx |-> Inert, f |-> f]

\* the FlintQuit(&ctx) of a failed Flint__Init
InitFailed(c, f) == FlintQuit(c, FALSE, f, NoFault)

Flint__Init(fnull, timestamp_unit, is_json, reserved, f, io) ==
    IF fnull THEN [ctx |-> Inert, f |-> f]
    ELSE LET op == fopen(f, Out(io, "open"))
             c == [file |-> op.ret, timestamp_unit |-> timestamp_unit,
                   is_json |-> IF is_json THEN 1 ELSE 0]
         IN IF c.file = 0 THEN InitFailed(c, op.f)
            ELSE IF c.is_json # 0
                 THEN LET pr == fprintf(op.f, JsonPrologue, Out(io, "print"))
                          fl == fflush(pr.f, Out(io, "sync"))
                      IN IF pr.ret <= 0 THEN InitFailed(c, pr.f)
                         ELSE IF fl.ret # 0 THEN InitFailed(c, fl.f)
                         ELSE [ctx |-> c, f |-> fl.f]
                 ELSE LET w == fwrite(op.f, Take(HeaderBytes(timestamp_unit, reserved),
                                                 SizeofHeader),
                                      Out(io, "write"))
                      IN IF w.ret # 1 THEN InitFailed(c, w.f)
                         ELSE [ctx |-> c, f |-> w.f]

\* a flush that leaves the buffer alone when there is no open Context
Mutant_FlintFlush_NoReset(c, cnull, w, wnull, f, io) ==
    IF ~cnull /\ c.file # 0
    THEN LET bf == Flint__BufferFlush(IF wnull THEN wb_ ELSE w, f, Out(io, "flush"))
             ff == fflush(bf.f, Out(io, "sync"))
         IN [wb |-> IF wnull THEN w ELSE bf.wb, f |-> ff.f,
             ret |-> IF ff.ret = 0 THEN FALSE ELSE bf.ret]
    ELSE [wb |-> w, f |-> f, ret |-> cnull]

\* a flush that writes the held bytes whether or not the Context has a file
Mutant_FlintFlush_WritesWhenInert(c, cnull, w, wnull, f, io) ==
    LET b == IF wnull THEN wb_ ELSE w
    IN IF ~cnull
       THEN LET bf == Flint__BufferFlush(b, f, Out(io, "flush"))
                ff == fflush(bf.f, Out(io, "sync"))
            IN [wb |-> IF wnull THEN w ELSE bf.wb, f |-> ff.f,
                ret |-> IF c.file = 0 \/ ff.ret = 0 THEN FALSE ELSE bf.ret]
       ELSE [wb |-> IF wnull THEN w ELSE [b EXCEPT !.head = 0], f |-> f, ret |-> cnull]

\* a flush that reports success whenever it has no file to write to
Mutant_FlintFlush_InertTrue(c, cnull, w, wnull, f, io) ==
    LET b == IF wnull THEN wb_ ELSE w
    IN IF ~cnull /\ c.file # 0
       THEN LET bf == Flint__BufferFlush(b, f, Out(io, "flush"))
                ff == fflush(bf.f, Out(io, "sync"))
            IN [wb |-> IF wnull THEN w ELSE bf.wb, f |-> ff.f,
                ret |-> IF ff.ret = 0 THEN FALSE ELSE bf.ret]
       ELSE [wb |-> IF wnull THEN w ELSE [b EXCEPT !.head = 0], f |-> f, ret |-> TRUE]

FlintFlush(c, cnull, w, wnull, f, io) ==
    LET b == IF wnull THEN wb_ ELSE w
    IN IF ~cnull /\ c.file # 0
       THEN LET bf == Flint__BufferFlush(b, f, Out(io, "flush"))
                ff == fflush(bf.f, Out(io, "sync"))
                r1 == bf.ret
                r2 == IF ff.ret = 0 THEN FALSE ELSE r1
            IN [wb |-> IF wnull THEN w ELSE bf.wb, f |-> ff.f, ret |-> r2]
       ELSE [wb |-> IF wnull THEN w ELSE [b EXCEPT !.head = 0], f |-> f, ret |-> cnull]

----------------------------------------------------------------------------
(* The Event API.  Each operator gives the caller's buffer and the stream  *)
(* after the call, the value returned, and the bytes the call emitted when *)
(* it returned true (sent): the payload handed to Flint__BufferWrite, or   *)
(* the text fprintf wrote.                                                 *)

Rejected(w, f) == [wb |-> w, f |-> f, ret |-> FALSE, sent |-> <<>>]

\* memcpy(ev.event.name.bytes, name, n) into the uninitialised array
NameBytes(junk, name, n) ==
    Take(NameStr(name) \o <<0>>, n) \o SubSeq(junk, n + 1, MaxNameLen)

\* a Begin that forgets the limit of 255
Mutant_ClampNameLen_None(name_len) == name_len

\* if (name_len > 255) name_len = 255
ClampNameLen(name_len) == IF name_len > MaxNameLen THEN MaxNameLen ELSE name_len

\* a Begin that accepts an empty name
Mutant_BadNameLen_Negative(name_len) == name_len < 0

\* if (name_len <= 0) return false
BadNameLen(name_len) == name_len <= 0

FlintTraceBeginLenTidPid(c, cnull, w, wnull, f, when, name, name_len, tid, pid, junk, io) ==
    LET b == IF wnull THEN wb_ ELSE w
    IN IF cnull THEN Rejected(w, f)
       ELSE IF IsNull(name) THEN Rejected(w, f)
       ELSE IF c.file = 0 THEN Rejected(w, f)
       ELSE IF feof(f) THEN Rejected(w, f)
       ELSE IF ferror(f) THEN Rejected(w, f)
       ELSE IF BadNameLen(name_len) THEN Rejected(w, f)
       ELSE LET len == ClampNameLen(name_len)
                ev0 == [type |-> FlintEventType_Begin, pid |-> pid, tid |-> tid,
                        when |-> when, length |-> U8(len), bytes |-> junk]
            IN IF c.is_json # 0
               THEN LET pr == fprintf(f, JsonBeginHead \o PctS(ev0.length, ev0.bytes)
                                         \o JsonBeginRest(ev0.pid, ev0.tid,
                                                          ev0.when * c.timestamp_unit),
                                      Out(io, "print"))
                    IN [wb |-> w, f |-> pr.f, ret |-> ~(pr.ret <= 0),
                        sent |-> IF pr.ret <= 0 THEN <<>> ELSE SubSeq(pr.f.bytes, f.pos + 1, pr.f.pos)]
               ELSE LET ev == [ev0 EXCEPT !.bytes = NameBytes(junk, name, U8(len))]
                        p == Take(BeginEventBytes(ev), SizeofBeginEvent + U8(len) - 1)
                        bw == Flint__BufferWrite(b, f, p, io)
                    IN [wb |-> IF wnull THEN w ELSE bw.wb, f |-> bw.f, ret |-> bw.ret,
                        sent |-> IF bw.ret THEN p ELSE <<>>]

FlintTraceBeginTidPid(c, cnull, w, wnull, f, when, name, tid, pid, junk, io) ==
    IF IsNull(name) THEN Rejected(w, f)
    ELSE IF strlen(name) = 0 THEN Rejected(w, f)
    ELSE FlintTraceBeginLenTidPid(c, cnull, w, wnull, f, when, name, strlen(name),
                                  tid, pid, junk, io)

\* an End that sends its JSON text through the Write Buffer
Mutant_FlintTraceEndTidPid_JsonBuffered(c, cnull, w, wnull, f, when, tid, pid, io) ==
    LET b == IF wnull THEN wb_ ELSE w
    IN IF cnull THEN Rejected(w, f)
       ELSE IF c.file = 0 THEN Rejected(w, f)
       ELSE IF feof(f) THEN Rejected(w, f)
       ELSE IF ferror(f) THEN Rejected(w, f)
       ELSE LET ev == [type |-> FlintEventType_End, pid |-> pid, tid |-> tid, when |-> when]
                p == IF c.is_json # 0
                     THEN JsonEndText(ev.pid, ev.tid, ev.when * c.timestamp_unit)
                     ELSE Take(EndEventBytes(ev), SizeofEndEvent)
                bw == Flint__BufferWrite(b, f, p, io)
            IN [wb |-> IF wnull THEN w ELSE bw.wb, f |-> bw.f, ret |-> bw.ret,
                sent |-> IF bw.ret THEN p ELSE <<>>]

FlintTraceEndTidPid(c, cnull, w, wnull, f, when, tid, pid, io) ==
    LET b == IF wnull THEN wb_ ELSE w
    IN IF cnull THEN Rejected(w, f)
       ELSE IF c.file = 0 THEN Rejected(w, f)
       ELSE IF feof(f) THEN Rejected(w, f)
       ELSE IF ferror(f) THEN Rejected(w, f)
       ELSE LET ev == [type |-> FlintEventType_End, pid |-> pid, tid |-> tid, when |-> when]
            IN IF c.is_json # 0
               THEN LET pr == fprintf(f, JsonEndText(ev.pid, ev.tid,
                                                     ev.when * c.timestamp_unit),
                                      Out(io, "print"))
                    IN [wb |-> w, f |-> pr.f, ret |-> ~(pr.ret <= 0),
                        sent |-> IF pr.ret <= 0 THEN <<>> ELSE SubSeq(pr.f.bytes, f.pos + 1, pr.f.pos)]
               ELSE LET p == Take(EndEventBytes(ev), SizeofEndEvent)
                        bw == Flint__BufferWrite(b, f, p, io)
                    IN [wb |-> IF wnull THEN w ELSE bw.wb, f |-> bw.f, ret |-> bw.ret,
                        sent |-> IF bw.ret THEN p ELSE <<>>]

\* the shorter forms: the tid and pid that are not passed are 0

\* a FlintTraceBeginTid that passes its tid as the pid
Mutant_FlintTraceBeginTid_AsPid(c, cnull, w, wnull, f, when, name, tid, junk, io) ==
    FlintTraceBeginTidPid(c, cnull, w, wnull, f, when, name, 0, tid, junk, io)

FlintTraceBeginTid(c, cnull, w, wnull, f, when, name, tid, junk, io) ==
    FlintTraceBeginTidPid(c, cnull, w, wnull, f, when, name, tid, 0, junk, io)

FlintTraceBegin(c, cnull, w, wnull, f, when, name, junk, io) ==
    FlintTraceBeginTidPid(c, cnull, w, wnull, f, when, name, 0, 0, junk, io)

FlintTraceBeginLenTid(c, cnull, w, wnull, f, when, name, name_len, tid, junk, io) ==
    FlintTraceBeginLenTidPid(c, cnull, w, wnull, f, when, name, name_len, tid, 0, junk, io)

FlintTraceBeginLen(c, cnull, w, wnull, f, when, name, name_len, junk, io) ==
    FlintTraceBeginLenTidPid(c, cnull, w, wnull, f, when, name, name_len, 0, 0, junk, io)

FlintTraceEndTid(c, cnull, w, wnull, f, when, tid, io) ==
    FlintTraceEndTidPid(c, cnull, w, wnull, f, when, tid, 0, io)

FlintTraceEnd(c, cnull, w, wnull, f, when, io) ==
    FlintTraceEndTidPid(c, cnull, w, wnull, f, when, 0, 0, io)

----------------------------------------------------------------------------
(* The caller: one Context, one Write Buffer, calls in any order *)

\* the record of a call; the fields a call does not have keep these values
NoCall ==
    [op |-> "none", ret |-> FALSE, cnull |-> FALSE, wnull |-> FALSE, open |-> FALSE,
     json |-> FALSE, faulted |-> FALSE, name |-> "null", name_len |-> 0,
     tid |-> 0, pid |-> 0, when |-> 0, head |-> 0]

Call(op, ret, cnull, wnull, f) ==
    [NoCall EXCEPT !.op = op, !.ret = ret, !.cnull = cnull, !.wnull = wnull,
                   !.open = ~cnull /\ IsOpen(ctx), !.json = ~cnull /\ ctx.is_json # 0,
                   !.faulted = f.fails > file.fails, !.head = wb.head]

\* the stdio calls of a Begin/End call: fprintf in JSON mode, the fwrite of a
\* flush and the fwrite of a record in binary mode
EventSites(c) == IF c.is_json # 0 THEN {"print"} ELSE {"flush", "write"}

\* the calls the caller makes, as <<ctx is NULL, wb is NULL, name, name_len, tid, pid>>:
\* the valid ones with every buffer choice, and one of each invalid kind
ValidLen == {<<"A", 1>>, <<"long", LongLen>>}

BeginLenCalls ==
    {<<FALSE, wnull, a[1], a[2], tp[1], tp[2]>> :
        wnull \in BOOLEAN, a \in ValidLen, tp \in TidPids}
    \cup {<<TRUE, FALSE, "A", 1, 0, 0>>, <<FALSE, FALSE, "null", 1, 0, 0>>,
          <<FALSE, FALSE, "A", 0, 0, 0>>, <<FALSE, TRUE, "A", -1, 0, 0>>}

BeginStrCalls ==
    {<<FALSE, wnull, name, strlen(name), tp[1], tp[2]>> :
        wnull \in BOOLEAN, name \in {"A", "long"}, tp \in TidPids}
    \cup {<<TRUE, FALSE, "A", 1, 0, 0>>, <<FALSE, FALSE, "null", 0, 0, 0>>,
          <<FALSE, FALSE, "empty", 0, 0, 0>>, <<FALSE, TRUE, "empty", 0, 0, 0>>}

EndCalls ==
    {<<FALSE, wnull, "null", 0, tp[1], tp[2]>> : wnull \in BOOLEAN, tp \in TidPids}
    \cup {<<TRUE, FALSE, "null", 0, 0, 0>>}

\* the oracles a call may meet: a stdio call fails only within the budget
Oracles(sites) == IF file.fails < MaxFaults THEN Fault(sites) ELSE {NoFault}

Init ==
    /\ ctx = Inert
    /\ wb \in {NewBuffer(n) : n \in WbLengths}
    /\ file = NoFile
    /\ last = NoCall
    /\ log = <<>>
    /\ sent = <<>>
    /\ mode = "none"
    /\ bufs = {}
    /\ dropped = FALSE

\* the caller is between two calls
Idle == last = NoCall

\* the timestamp the caller passes to the next Begin/End call
Now == Len(log) + 1

\* the flush took the branch that resets the cursor of a buffer holding bytes
Discards(c, cnull, w) == wb.head > 0 /\ w.head = 0 /\ (cnull \/ ~IsOpen(c))

\* ctx = FlintInit(filename, unit) or FlintInitJson(filename, unit)
DoInit ==
    /\ Idle
    /\ mode = "none"
    /\ \E fnull \in BOOLEAN, unit \in Units, is_json \in BOOLEAN, reserved \in JunkBytes,
          io \in Oracles({"open", "print", "sync", "write"}) :
          LET r == Flint__Init(fnull, unit, is_json, reserved, file, io)
          IN /\ ctx' = r.ctx
             /\ file' = r.f
             /\ last' = [Call("Init", IsOpen(r.ctx), FALSE, FALSE, r.f) EXCEPT !.json = is_json]
             /\ mode' = IF is_json THEN "json" ELSE "binary"
    /\ UNCHANGED <<wb, log, sent, bufs, dropped>>

\* FlintQuit(&ctx) or FlintQuit(NULL)
DoQuit ==
    /\ Idle
    /\ \E cnull \in BOOLEAN, io \in Oracles({"seek", "print"}) :
          LET r == FlintQuit(ctx, cnull, file, io)
          IN /\ ctx' = r.ctx
             /\ file' = r.f
             /\ last' = Call("Quit", FALSE, cnull, FALSE, r.f)
    /\ UNCHANGED <<wb, log, sent, mode, bufs, dropped>>

\* FlintFlush(&ctx, wb) and FlintBufferQuit(&ctx, wb), with wb possibly NULL
DoFlush ==
    /\ Idle
    /\ \E wnull \in BOOLEAN, io \in Oracles({"flush", "sync"}) :
          LET r == FlintFlush(ctx, FALSE, wb, wnull, file, io)
          IN /\ wb' = r.wb
             /\ file' = r.f
             /\ last' = Call("Flush", r.ret, FALSE, wnull, r.f)
             /\ dropped' = (dropped \/ Discards(ctx, FALSE, r.wb))
    /\ UNCHANGED <<ctx, log, sent, mode, bufs>>

\* FlintBufferInit(wb), which is FlintFlush(NULL, wb)
DoBufferInit ==
    /\ Idle
    /\ LET r == FlintFlush(ctx, TRUE, wb, FALSE, file, NoFault)
       IN /\ wb' = r.wb
          /\ file' = r.f
          /\ last' = Call("BufferInit", r.ret, TRUE, FALSE, r.f)
          /\ dropped' = (dropped \/ Discards(ctx, TRUE, r.wb))
    /\ UNCHANGED <<ctx, log, sent, mode, bufs>>

\* what a Begin/End call leaves: the buffer, the stream, the record of the call
\* and the histories
Event(op, type, a, r) ==
    /\ wb' = r.wb
    /\ file' = r.f
    /\ last' = [Call(op, r.ret, a[1], a[2], r.f) EXCEPT
                   !.name = a[3], !.name_len = a[4], !.tid = a[5], !.pid = a[6],
                   !.when = Now]
    /\ log' = IF r.ret
              THEN Append(log, [type |-> type, pid |-> a[6], tid |-> a[5],
                                when |-> Now, name |-> a[3], name_len |-> a[4]])
              ELSE log
    /\ sent' = sent \o r.sent
    /\ bufs' = IF r.ret /\ ctx.is_json = 0 THEN bufs \cup {a[2]} ELSE bufs
    /\ UNCHANGED <<ctx, mode, dropped>>

\* FlintTraceBeginLenTidPid(ctx, wb, when, name, name_len, tid, pid)
DoBeginLen ==
    /\ Idle
    /\ Len(log) < MaxCalls
    /\ \E a \in BeginLenCalls, junk \in JunkOf(ctx), io \in Oracles(EventSites(ctx)) :
          Event("BeginLen", FlintEventType_Begin, a,
                FlintTraceBeginLenTidPid(ctx, a[1], wb, a[2], file, Now,
                                         a[3], a[4], a[5], a[6], junk, io))

\* FlintTraceBeginTidPid(ctx, wb, when, name, tid, pid)
DoBeginStr ==
    /\ Idle
    /\ Len(log) < MaxCalls
    /\ \E a \in BeginStrCalls, junk \in JunkOf(ctx), io \in Oracles(EventSites(ctx)) :
          Event("BeginStr", FlintEventType_Begin, a,
                FlintTraceBeginTidPid(ctx, a[1], wb, a[2], file, Now,
                                      a[3], a[5], a[6], junk, io))

\* FlintTraceEndTidPid(ctx, wb, when, tid, pid)
DoEnd ==
    /\ Idle
    /\ Len(log) < MaxCalls
    /\ \E a \in EndCalls, io \in Oracles(EventSites(ctx)) :
          Event("End", FlintEventType_End, a,
                FlintTraceEndTidPid(ctx, a[1], wb, a[2], file, Now, a[5], a[6], io))

\* the caller has looked at what the call returned and goes on
Return ==
    /\ ~Idle
    /\ last' = NoCall
    /\ UNCHANGED <<ctx, wb, file, log, sent, mode, bufs, dropped>>

Next ==
    \/ DoInit
    \/ DoQuit
    \/ DoFlush
    \/ DoBufferInit
    \/ DoBeginLen
    \/ DoBeginStr
    \/ DoEnd
    \/ Return

Spec == Init /\ [][Next]_vars

----------------------------------------------------------------------------
(* The Write Buffer on its own: Flint__BufferWrite and Flint__BufferFlush  *)
(* on one buffer of any capacity and one healthy stream.  log holds the    *)
(* sizes of the payloads written so far.                                   *)

\* the payload of the k-th write, of n bytes
Payload(k, n) == [j \in 1..n |-> 16 * k + j]

InitBW ==
    /\ ctx = Inert
    /\ wb \in {NewBuffer(n) : n \in 0..MaxCap}
    /\ file = [NoFile EXCEPT !.open = TRUE]
    /\ last = NoCall
    /\ log = <<>>
    /\ sent = <<>>
    /\ mode = "buffer"
    /\ bufs = {}
    /\ dropped = FALSE

BWWrite ==
    /\ Len(log) < MaxWrites
    /\ \E n \in 0..(MaxCap + 1) :
          LET p == Payload(Len(log) + 1, n)
              r == Flint__BufferWrite(wb, file, p, NoFault)
          IN /\ wb' = r.wb
             /\ file' = r.f
             /\ last' = [NoCall EXCEPT !.op = "BufferWrite", !.ret = r.ret, !.head = wb.head]
             /\ log' = Append(log, n)
             /\ sent' = sent \o p
    /\ UNCHANGED <<ctx, mode, bufs, dropped>>

BWFlush ==
    /\ LET r == Flint__BufferFlush(wb, file, "ok")
       IN /\ wb' = r.wb
          /\ file' = r.f
          /\ last' = [NoCall EXCEPT !.op = "BufferFlush", !.ret = r.ret, !.head = wb.head]
    /\ UNCHANGED <<ctx, log, sent, mode, bufs, dropped>>

NextBW ==
    \/ BWWrite
    \/ BWFlush

SpecBW == InitBW /\ [][NextBW]_vars

----------------------------------------------------------------------------
(* The caller of the shorter forms: FlintInit/FlintInitJson with unit 1.0,  *)
(* then FlintTraceBegin, BeginTid, BeginTidPid, BeginLen, BeginLenTid,      *)
(* FlintTraceEnd and EndTid in any order, with flushes and FlintQuit.  A    *)
(* call is <<ctx is NULL, wb is NULL, name, name_len, tid, pid>>, with 0    *)
(* for what the form does not take.                                         *)

\* the tid passed to the forms that take one
WrapTid == 1

StrArgs == {<<FALSE, wnull, "A">> : wnull \in BOOLEAN}
              \cup {<<TRUE, FALSE, "A">>, <<FALSE, FALSE, "null">>, <<FALSE, FALSE, "empty">>}

LenArgs == {<<FALSE, wnull, "A", 1>> : wnull \in BOOLEAN}
              \cup {<<TRUE, FALSE, "A", 1>>, <<FALSE, FALSE, "null", 1>>, <<FALSE, FALSE, "A", 0>>}

EndArgs == {<<FALSE, wnull>> : wnull \in BOOLEAN} \cup {<<TRUE, FALSE>>}

\* ctx = FlintInit(filename, 1.0) or FlintInitJson(filename, 1.0)
DoInitUnit1 ==
    /\ Idle
    /\ mode = "none"
    /\ \E fnull \in BOOLEAN, is_json \in BOOLEAN, reserved \in JunkBytes,
          io \in Oracles({"open", "print", "sync", "write"}) :
          LET r == Flint__Init(fnull, 1, is_json, reserved, file, io)
          IN /\ ctx' = r.ctx
             /\ file' = r.f
             /\ last' = [Call("Init", IsOpen(r.ctx), FALSE, FALSE, r.f) EXCEPT !.json = is_json]
             /\ mode' = IF is_json THEN "json" ELSE "binary"
    /\ UNCHANGED <<wb, log, sent, bufs, dropped>>

\* FlintTraceBegin(ctx, wb, when, name)
DoBegin ==
    /\ Idle
    /\ Len(log) < MaxCalls
    /\ \E a \in StrArgs, junk \in JunkOf(ctx), io \in Oracles(EventSites(ctx)) :
          Event("Begin", FlintEventType_Begin, <<a[1], a[2], a[3], strlen(a[3]), 0, 0>>,
                FlintTraceBegin(ctx, a[1], wb, a[2], file, Now, a[3], junk, io))

\* FlintTraceBeginTid(ctx, wb, when, name, tid)
DoBeginTid ==
    /\ Idle
    /\ Len(log) < MaxCalls
    /\ \E a \in StrArgs, junk \in JunkOf(ctx), io \in Oracles(EventSites(ctx)) :
          Event("BeginTid", FlintEventType_Begin, <<a[1], a[2], a[3], strlen(a[3]), WrapTid, 0>>,
                FlintTraceBeginTid(ctx, a[1], wb, a[2], file, Now, a[3], WrapTid, junk, io))

\* FlintTraceBeginTidPid(ctx, wb, when, name, tid, 0)
DoBeginTidPid ==
    /\ Idle
    /\ Len(log) < MaxCalls
    /\ \E a \in StrArgs, junk \in JunkOf(ctx), io \in Oracles(EventSites(ctx)) :
          Event("BeginTidPid", FlintEventType_Begin,
                <<a[1], a[2], a[3], strlen(a[3]), WrapTid, 0>>,
                FlintTraceBeginTidPid(ctx, a[1], wb, a[2], file, Now, a[3], WrapTid, 0, junk, io))

\* FlintTraceBeginLen(ctx, wb, when, name, name_len)
DoBeginLenOnly ==
    /\ Idle
    /\ Len(log) < MaxCalls
    /\ \E a \in LenArgs, junk \in JunkOf(ctx), io \in Oracles(EventSites(ctx)) :
          Event("BeginLenOnly", FlintEventType_Begin, <<a[1], a[2], a[3], a[4], 0, 0>>,
                FlintTraceBeginLen(ctx, a[1], wb, a[2], file, Now, a[3], a[4], junk, io))

\* FlintTraceBeginLenTid(ctx, wb, when, name, name_len, tid)
DoBeginLenTid ==
    /\ Idle
    /\ Len(log) < MaxCalls
    /\ \E a \in LenArgs, junk \in JunkOf(ctx), io \in Oracles(EventSites(ctx)) :
          Event("BeginLenTid", FlintEventType_Begin, <<a[1], a[2], a[3], a[4], WrapTid, 0>>,
                FlintTraceBeginLenTid(ctx, a[1], wb, a[2], file, Now, a[3], a[4], WrapTid,
                                      junk, io))

\* FlintTraceEnd(ctx, wb, when)
DoEndOnly ==
    /\ Idle
    /\ Len(log) < MaxCalls
    /\ \E a \in EndArgs, io \in Oracles(EventSites(ctx)) :
          Event("EndOnly", FlintEventType_End, <<a[1], a[2], "null", 0, 0, 0>>,
                FlintTraceEnd(ctx, a[1], wb, a[2], file, Now, io))

\* FlintTraceEndTid(ctx, wb, when, tid)
DoEndTid ==
    /\ Idle
    /\ Len(log) < MaxCalls
    /\ \E a \in EndArgs, io \in Oracles(EventSites(ctx)) :
          Event("EndTid", FlintEventType_End, <<a[1], a[2], "null", 0, WrapTid, 0>>,
                FlintTraceEndTid(ctx, a[1], wb, a[2], file, Now, WrapTid, io))

NextW ==
    \/ DoInitUnit1
    \/ DoQuit
    \/ DoFlush
    \/ DoBegin
    \/ DoBeginTid
    \/ DoBeginTidPid
    \/ DoBeginLenOnly
    \/ DoBeginLenTid
    \/ DoEndOnly
    \/ DoEndTid
    \/ Return

SpecW == Init /\ [][NextW]_vars

----------------------------------------------------------------------------
(* Reading the files back *)

EndsWith(s, t) == Len(s) >= Len(t) /\ SubSeq(s, Len(s) - Len(t) + 1, Len(s)) = t

StartsWith(s, t) == Len(s) >= Len(t) /\ SubSeq(s, 1, Len(t)) = t

Count(s, b) == Cardinality({i \in 1..Len(s) : s[i] = b})

\* the uint32_t and the double (a whole number below 32) of an object representation
ReadU32(b) == b[1] + 256 * b[2] + 65536 * b[3] + 16777216 * b[4]

ReadF64(b) ==
    IF b = <<0, 0, 0, 0, 0, 0, 0, 0>> THEN 0
    ELSE LET e == b[8] * 16 + (b[7] \div 16) - 1023
         IN ((16 + (b[7] % 16)) * Pow2(e)) \div 16

\* the records of a binary file after its header, as a trace reader takes them:
\* tag 2 = Begin (pid, tid, timestamp, length byte, name), tag 3 = End
RECURSIVE Decode(_)
Decode(b) ==
    IF b = <<>> THEN <<>>
    ELSE IF b[1] = 2 /\ Len(b) >= 18 /\ Len(b) >= 18 + b[18]
    THEN <<[type |-> 2, pid |-> ReadU32(SubSeq(b, 2, 5)), tid |-> ReadU32(SubSeq(b, 6, 9)),
            when |-> ReadF64(SubSeq(b, 10, 17)), name |-> SubSeq(b, 19, 18 + b[18])]>>
         \o Decode(Drop(b, 18 + b[18]))
    ELSE IF b[1] = 3 /\ Len(b) >= 17
    THEN <<[type |-> 3, pid |-> ReadU32(SubSeq(b, 2, 5)), tid |-> ReadU32(SubSeq(b, 6, 9)),
            when |-> ReadF64(SubSeq(b, 10, 17)), name |-> <<>>]>>
         \o Decode(Drop(b, 17))
    ELSE <<[type |-> 0, pid |-> 0, tid |-> 0, when |-> 0, name |-> b]>>

\* the name a call passed, cut to its first min(name_len, 255) bytes
CutName(name, name_len) == Take(NameStr(name), Min(name_len, 255))

\* the tuple a logged call passed
Passed(e) ==
    [type |-> e.type, pid |-> e.pid, tid |-> e.tid, when |-> e.when,
     name |-> IF e.type = 2 THEN CutName(e.name, e.name_len) ELSE <<>>]

\* the bytes of the file after the preamble Init wrote
Body == Drop(file.bytes, IF mode = "json" THEN Len(JsonPrologue) ELSE 25)

BeginOps == {"BeginLen", "BeginStr"}

\* no stdio call has failed, every buffer used has been flushed and none was reset
AllFlushed == file.fails = 0 /\ wb.head = 0 /\ ~dropped

----------------------------------------------------------------------------
(* The claims *)

\* what the claim asks of the JSON file: the prologue with its opening bracket
\* is intact, the file ends with the closing "]}", no comma stands before the
\* closing bracket, and the brackets balance
JsonWellFormed(b) ==
    /\ StartsWith(b, JsonPrologue)
    /\ EndsWith(b, JsonEpilogue)
    /\ Len(b) > Len(JsonEpilogue) /\ b[Len(b) - Len(JsonEpilogue)] # 44
    /\ Count(b, 91) = Count(b, 93)
    /\ Count(b, 123) = Count(b, 125)

\* C1: in JSON mode, after FlintInitJson, any sequence of successful Begin/End
\* calls (the empty one included) and FlintQuit, with no stdio call failing, the
\* file is well-formed JSON: prologue intact, no comma after the last object,
\* closing brackets balancing the opening ones.
C1_JsonWellFormedAfterQuit ==
    (mode = "json" /\ file.fails = 0 /\ file.closes = 1) => JsonWellFormed(file.bytes)

\* C2: for every capacity (0 included) and every sequence of Flint__BufferWrite
\* calls with no failing sink write, the sink bytes followed by the held bytes
\* are the concatenation of the payloads so far, every write returns true, and
\* after a flush the sink alone holds that concatenation.
C2_SinkThenBufferIsConcatenation ==
    /\ file.bytes \o Held(wb) = sent
    /\ last.op = "BufferWrite" => last.ret
    /\ last.op = "BufferFlush" => (last.ret /\ wb.head = 0 /\ file.bytes = sent)

\* C2's case: a buffer of positive capacity that has taken a payload above its
\* capacity and one equal to it, after a flush that had bytes to write
C2_Witness ==
    /\ last.op = "BufferFlush" /\ last.head > 0
    /\ wb.length > 0
    /\ \E i \in 1..Len(log) : log[i] > wb.length
    /\ \E i \in 1..Len(log) : log[i] = wb.length

\* C3: in binary mode, after successful Begin/End calls through one Write Buffer
\* (or all unbuffered), a flush and FlintQuit, with no stdio call failing,
\* decoding the file after the header yields the tuples (type, pid, tid,
\* timestamp, name cut to min(name_len, 255) bytes) passed, in call order.
C3_BinaryRoundTrip ==
    (mode = "binary" /\ file.closes = 1 /\ AllFlushed /\ Cardinality(bufs) <= 1)
        => Decode(Body) = [i \in 1..Len(log) |-> Passed(log[i])]

\* C3's case: the buffer was used, a long name was cut, the file is closed
C3_Witness ==
    /\ mode = "binary" /\ file.closes = 1 /\ AllFlushed /\ bufs = {FALSE}
    /\ Len(log) = MaxCalls
    /\ \E i \in 1..Len(log) : log[i].type = 2 /\ log[i].name_len > 255
    /\ \E i \in 1..Len(log) : log[i].type = 3

\* C4 as stated: whatever buffer (or none) each successful call passes, once
\* every buffer is flushed the records are in the sink in call order.
C4_Original_CallOrder ==
    (mode \in {"binary", "json"} /\ file.open /\ AllFlushed) => Body = sent

\* C4 amended: when every call passes the same Write Buffer, or every call passes
\* none, once the buffer is flushed the records are in the sink in call order.
C4_CallOrderOneBuffer ==
    (mode \in {"binary", "json"} /\ file.open /\ AllFlushed /\ Cardinality(bufs) <= 1)
        => Body = sent

\* C4's case: two records went through the caller's buffer and were flushed
C4_Witness ==
    /\ mode = "binary" /\ file.open /\ AllFlushed /\ bufs = {FALSE}
    /\ Len(log) >= 2 /\ last.op = "Flush" /\ last.head > 0

\* C5: FlintFlush on an open Context returns true when the write of the held
\* bytes and the stream flush both succeed, leaving the cursor at 0.
C5_FlushSucceeds ==
    (last.op = "Flush" /\ last.open /\ ~last.faulted)
        => (last.ret /\ (last.wnull \/ wb.head = 0))

\* C6: in JSON mode the "name" field written by a successful Begin is the first
\* min(name_len, 255) bytes of the name passed.
C6_JsonNameIsCallersName ==
    (last.op \in BeginOps /\ last.ret /\ last.json)
        => EndsWith(file.bytes,
                    JsonBeginHead \o CutName(last.name, last.name_len)
                    \o JsonBeginRest(last.pid, last.tid, last.when * ctx.timestamp_unit))

\* C7: FlintQuit leaves the Context inert; on an open Context it closes the sink,
\* which is never closed twice; on an inert Context (never opened, or already
\* quit) it closes nothing, writes nothing and changes nothing.
C7_QuitIdempotent ==
    [][(last'.op = "Quit" /\ ~last'.cnull)
        => /\ ctx' = Inert
           /\ ~file'.open
           /\ file'.closes = file.closes + (IF IsOpen(ctx) THEN 1 ELSE 0)
           /\ file'.closes <= 1
           /\ ~IsOpen(ctx) => UNCHANGED <<ctx, wb, file>>]_vars

\* C7's case: a second FlintQuit on a Context that an earlier FlintQuit closed
C7_Witness ==
    last.op = "Quit" /\ ~last.cnull /\ ~last.open /\ file.closes = 1 /\ ctx = Inert

\* the place a binary record of n bytes lands: the caller's buffer if it was
\* passed and can hold n bytes, the sink otherwise
Landed(n) == IF ~last.wnull /\ n <= wb.length THEN Held(wb) ELSE file.bytes

\* C8: on an open healthy binary Context a Begin with a non-null name and
\* name_len >= 1 returns true and emits a record whose length byte is
\* min(name_len, 255), followed by exactly that many bytes, the first of the name.
C8_BeginTruncatesTo255 ==
    (last.op \in BeginOps /\ last.open /\ ~last.json /\ ~file.err
     /\ last.name # "null" /\ last.name_len >= 1)
        => LET n == Min(last.name_len, 255)
           IN /\ last.ret
              /\ EndsWith(Landed(18 + n),
                          <<2>> \o LE32(last.pid) \o LE32(last.tid) \o F64(last.when)
                          \o <<n>> \o SubSeq(NameStr(last.name), 1, n))

\* C8's case: a Begin with a name of 1000 bytes or so has returned true
C8_Witness ==
    /\ last.op = "BeginLen" /\ last.open /\ ~last.json /\ ~file.err
    /\ last.name_len > 255 /\ last.ret

\* C9: a Begin with a null Context, a null name, name_len <= 0 or (C-string
\* form) an empty string returns false and changes neither the sink, nor the
\* Write Buffer, nor the Context, in either mode.
C9_InvalidBeginNoEffect ==
    [][(last'.op \in BeginOps
        /\ (last'.cnull \/ last'.name = "null" \/ last'.name_len <= 0))
        => (~last'.ret /\ UNCHANGED <<ctx, wb, file>>)]_vars

\* C9's case: an empty name on an open healthy Context whose buffer holds bytes
C9_Witness ==
    /\ last.op \in BeginOps /\ last.open /\ ~file.err /\ ~last.ret
    /\ last.name_len = 0 /\ last.name # "null" /\ wb.head > 0

\* C10 as stated: on an inert Context every Begin, End and Flush call returns
\* false and changes neither the sink, nor the Context, nor the Write Buffer.
C10_Original_InertNoOp ==
    [][(last'.op \in (BeginOps \cup {"End", "Flush"}) /\ ~last'.cnull /\ ~IsOpen(ctx))
        => (~last'.ret /\ UNCHANGED <<ctx, wb, file>>)]_vars

\* C10 amended: on an inert Context every Begin, End and Flush call returns false
\* and changes neither the sink nor the Context; Begin and End leave the Write
\* Buffer unchanged, Flush sets its cursor to 0 and leaves the rest of it.
C10_InertFlushResetsCursor ==
    [][(last'.op \in (BeginOps \cup {"End", "Flush"}) /\ ~last'.cnull /\ ~IsOpen(ctx))
        => /\ ~last'.ret
           /\ UNCHANGED <<ctx, file>>
           /\ wb' = IF last'.op = "Flush" /\ ~last'.wnull
                    THEN [wb EXCEPT !.head = 0] ELSE wb]_vars

\* C10's case: a flush on a Context that was quit while the buffer held bytes
C10_Witness ==
    /\ last.op = "Flush" /\ ~last.cnull /\ ~last.wnull /\ ~last.open
    /\ last.head > 0 /\ wb.head = 0 /\ ~last.ret

EventOps == BeginOps \cup {"End"}

\* the call that has just returned was a Begin/End with valid arguments
ValidEvent ==
    /\ last.op \in EventOps /\ ~last.cnull
    /\ last.op \in BeginOps => (last.name # "null" /\ last.name_len > 0)

\* the trace of a Begin/End call whose write failed: in JSON mode, where only
\* Begin and End write after the prologue, the file ends in a cut object
CutObject == mode = "json" /\ Len(Body) > 0 /\ ~EndsWith(Body, JsonTail)

\* C11 as stated: after a Begin/End call failed on a sink write, the Context
\* stays open and usable: a later Begin/End call with valid arguments, none of
\* whose own stdio calls fails, returns true.
C11_Original_UsableAfterFailure ==
    (ValidEvent /\ last.open /\ CutObject /\ ~last.faulted) => last.ret

\* C11 amended: a Begin/End call that meets a failing sink write returns
\* false, leaves the Context open and unchanged and the stream in its error
\* state; on an open Context whose stream is in its error state every Begin/End
\* call returns false and changes neither the sink nor the Write Buffer.
C11_ErrorStateRejectsEvents ==
    [][(last'.op \in EventOps /\ ~last'.cnull)
        => /\ ctx' = ctx
           /\ last'.faulted => (~last'.ret /\ IsOpen(ctx') /\ ferror(file'))
           /\ (IsOpen(ctx) /\ ferror(file)) => (~last'.ret /\ UNCHANGED <<wb, file>>)]_vars

\* C11's case: in JSON mode an event's fprintf stopped half way (the file ends
\* in a cut object), and a later valid call on the still open Context, with no
\* failing stdio call of its own, has returned false
C11_Witness ==
    /\ ValidEvent /\ last.open /\ IsOpen(ctx) /\ CutObject
    /\ ~last.faulted /\ ~last.ret /\ ferror(file)

\* the size of the record of a logged call
RecordSize(e) == IF e.type = 2 THEN 18 + Min(e.name_len, 255) ELSE 17

RECURSIVE SumSizes(_)
SumSizes(l) == IF l = <<>> THEN 0 ELSE RecordSize(l[1]) + SumSizes(Tail(l))

\* a binary file whose records have all reached the sink, closed by FlintQuit
BinaryComplete ==
    mode = "binary" /\ file.closes = 1 /\ AllFlushed /\ Cardinality(bufs) <= 1

\* the run FlintInit(binary, unit 1.0); FlintTraceBegin(ts 1.0, "A");
\* FlintTraceEnd(ts 2.0); FlintQuit, with the records in the sink
Scenario ==
    /\ BinaryComplete
    /\ log = <<[type |-> 2, pid |-> 0, tid |-> 0, when |-> 1, name |-> "A", name_len |-> 1],
               [type |-> 3, pid |-> 0, tid |-> 0, when |-> 2, name |-> "null", name_len |-> 0]>>

\* C12 as stated: after that run the file is exactly 56 bytes (a header of 21,
\* a Begin record of 18, an End record of 17).
C12_Original_56Bytes == Scenario => Len(file.bytes) = 56

\* C12 amended: after that run the file is exactly 61 bytes: a header of 25
\* bytes starting with the magic sentinel 0D F0 AD 0B 00 00 00 00, a Begin record
\* of 19 bytes at offset 25 and an End record of 17 bytes at offset 44; in
\* general the file is the 25-byte header followed by 18 + min(name_len, 255)
\* bytes per Begin and 17 bytes per End.
C12_SizesAre25_19_17 ==
    /\ Scenario
         => /\ Len(file.bytes) = 61
            /\ SubSeq(file.bytes, 1, 8) = <<13, 240, 173, 11, 0, 0, 0, 0>>
            /\ file.bytes[26] = 2 /\ file.bytes[43] = 1 /\ file.bytes[44] = 65
            /\ file.bytes[45] = 3
    /\ BinaryComplete => Len(file.bytes) = 25 + SumSizes(log)

\* C12's case: the run, with both records through the Write Buffer and flushed
C12_Witness == Scenario /\ bufs = {FALSE} /\ wb.length = 300

\* the canonical call a shorter form stands for: the tid it was given or 0, pid
\* 0, and for the C-string forms the length of the string
CanonicalOf(l, junk, io) ==
    LET tid == IF l.op \in {"BeginTid", "BeginTidPid", "BeginLenTid", "EndTid"}
               THEN l.tid ELSE 0
    IN CASE l.op \in {"Begin", "BeginTid", "BeginTidPid"} ->
              FlintTraceBeginLenTidPid(ctx, l.cnull, wb, l.wnull, file, l.when, l.name,
                                       strlen(l.name), tid, 0, junk, io)
         [] l.op \in {"BeginLenOnly", "BeginLenTid"} ->
              FlintTraceBeginLenTidPid(ctx, l.cnull, wb, l.wnull, file, l.when, l.name,
                                       l.name_len, tid, 0, junk, io)
         [] OTHER ->
              FlintTraceEndTidPid(ctx, l.cnull, wb, l.wnull, file, l.when, tid, 0, io)

WrapperOps ==
    {"Begin", "BeginTid", "BeginTidPid", "BeginLenOnly", "BeginLenTid", "EndOnly", "EndTid"}

\* C17: every call of a shorter form returns the value and leaves the sink, the
\* Write Buffer and the Context that the canonical call with the same
\* arguments does, for name_len the length of the string (C-string forms) and
\* 0 for the tid and pid not passed, under the same outcomes of the stdio calls.
C17_WrappersAreCanonical ==
    [][last'.op \in WrapperOps
        => \E junk \in JunkOf(ctx), io \in Oracles(EventSites(ctx)) :
              LET r == CanonicalOf(last', junk, io)
              IN wb' = r.wb /\ file' = r.f /\ last'.ret = r.ret /\ ctx' = ctx]_vars

\* C17's case: FlintTraceBeginTid with a tid other than 0 has put a record in
\* the Write Buffer of an open binary Context
C17_Witness ==
    /\ last.op = "BeginTid" /\ last.ret /\ last.open /\ ~last.json /\ ~last.wnull
    /\ last.tid # 0 /\ wb.head > last.head

\* the record a valid Begin/End call hands to Flint__BufferWrite
EventPayload(l) ==
    IF l.op = "End" THEN <<3>> \o LE32(l.pid) \o LE32(l.tid) \o F64(l.when)
    ELSE <<2>> \o LE32(l.pid) \o LE32(l.tid) \o F64(l.when)
         \o <<Min(l.name_len, 255)>> \o CutName(l.name, l.name_len)

\* s is t followed by a part of p that is not all of p
CutAfter(s, t, p) ==
    /\ Len(t) <= Len(s) /\ Len(s) < Len(t) + Len(p)
    /\ s = Take(t \o p, Len(s))

\* C13: Flint__BufferWrite of n bytes into a buffer holding head bytes.  If
\* head + n is within the capacity the payload is appended, the cursor grows by
\* n and the sink is not written.  Otherwise the held bytes are flushed first;
\* if that flush fails the call returns false, cursor and contents are unchanged
\* and no byte of the payload is appended or written; after a good flush a
\* payload above the capacity goes to the sink after the held bytes with the
\* cursor at 0 (false if that write fails), any other is appended at 0.
C13_BufferWritePolicy ==
    [][(last'.op \in EventOps /\ last'.open /\ ~last'.json /\ ~last'.wnull
        /\ ~ferror(file)
        /\ (last'.op \in BeginOps => (last'.name # "null" /\ last'.name_len > 0)))
        => LET p == EventPayload(last')
               n == Len(p)
               held == Held(wb)
               out == Drop(file'.bytes, Len(file.bytes))
           IN /\ wb'.length = wb.length
              /\ Take(file'.bytes, Len(file.bytes)) = file.bytes
              /\ IF wb.head + n <= wb.length
                 THEN /\ last'.ret /\ file' = file
                      /\ wb'.head = wb.head + n /\ Held(wb') = held \o p
                 ELSE \/ /\ wb.head > 0 /\ ~last'.ret /\ wb' = wb
                         /\ CutAfter(out, <<>>, held)
                      \/ /\ n > wb.length
                         /\ wb' = [wb EXCEPT !.head = 0]
                         /\ \/ last'.ret /\ out = held \o p
                            \/ ~last'.ret /\ CutAfter(out, held, p)
                      \/ /\ n <= wb.length /\ last'.ret
                         /\ wb'.head = n /\ Held(wb') = p /\ out = held]_vars

\* C13's case: the flush before a write failed and the buffer kept its bytes
C13_Witness ==
    /\ last.op \in EventOps /\ last.open /\ ~last.json /\ ~last.wnull
    /\ last.faulted /\ ~last.ret /\ last.head > 0 /\ wb.head = last.head

\* C14: in every state reached by Begin, End, FlintFlush, FlintBufferInit and
\* FlintBufferQuit calls, with or without sink failures, the cursor of the Write
\* Buffer is between 0 and its capacity, and no step changes the capacity.
C14_CursorWithinCapacity ==
    [][/\ wb.head >= 0 /\ wb.head <= wb.length /\ Len(wb.data) = wb.length
       /\ wb'.head >= 0 /\ wb'.head <= wb'.length /\ Len(wb'.data) = wb'.length
       /\ wb'.length = wb.length]_vars

\* C14's case: the buffer is full, and a flush of it has just failed
C14_Witness ==
    /\ wb.length > 0 /\ wb.head = wb.length
    /\ last.op = "Flush" /\ last.faulted /\ ~last.wnull

\* C15: on a JSON Context no Begin/End call, successful or not, changes the
\* Write Buffer, and a successful one appends to the stream exactly one object,
\* from its opening brace to "},\n".  On a binary Context a successful call
\* whose record fits the free space of the buffer changes only the buffer
\* (cursor and contents) and writes nothing to the sink.
C15_JsonBypassesBuffer ==
    [][(last'.op \in EventOps /\ ~last'.cnull)
        => LET out == Drop(file'.bytes, Len(file.bytes))
               ts == last'.when * ctx.timestamp_unit
           IN /\ ctx' = ctx
              /\ ctx.is_json # 0
                   => /\ wb' = wb
                      /\ Take(file'.bytes, Len(file.bytes)) = file.bytes
                      /\ last'.ret
                           => IF last'.op = "End"
                              THEN out = JsonEndText(last'.pid, last'.tid, ts)
                              ELSE /\ StartsWith(out, JsonBeginHead)
                                   /\ EndsWith(out, JsonBeginRest(last'.pid, last'.tid, ts))
                                   /\ Count(out, 10) = 1
              /\ (ctx.is_json = 0 /\ last'.ret /\ ~last'.wnull
                  /\ wb.head + Len(EventPayload(last')) <= wb.length)
                   => /\ file' = file
                      /\ wb'.head = wb.head + Len(EventPayload(last'))
                      /\ Held(wb') = Held(wb) \o EventPayload(last')]_vars

\* C15's case: an End on a JSON Context, given a Write Buffer, has returned true
C15_Witness ==
    /\ last.op = "End" /\ last.json /\ last.open /\ last.ret /\ ~last.wnull
    /\ EndsWith(file.bytes, JsonTail)

\* C16: the Context opens only in Init and closes only in Quit, its mode does
\* not change while it is open, and no Begin, End or Flush opens a closed one.
\* In binary mode the file of an open Context starts with the header Init
\* wrote, and no call after Init changes the first 25 bytes of the file.
C16_LinearLifecycle ==
    [][/\ (~IsOpen(ctx) /\ IsOpen(ctx')) => last'.op = "Init"
       /\ (IsOpen(ctx) /\ ~IsOpen(ctx')) => (last'.op = "Quit" /\ ~last'.cnull)
       /\ (IsOpen(ctx) /\ IsOpen(ctx')) => ctx' = ctx
       /\ last'.op \in (EventOps \cup {"Flush", "BufferInit"}) => ctx' = ctx
       /\ (mode' = "binary" /\ IsOpen(ctx'))
            => Take(file'.bytes, 24) = Take(HeaderBytes(ctx'.timestamp_unit, 0), 24)
       /\ (mode = "binary" /\ IsOpen(ctx)) => Len(file.bytes) >= 25
       /\ mode = "binary" => Take(file'.bytes, 25) = Take(file.bytes, 25)]_vars

\* C16's case: a binary Context was opened, took records that reached the
\* sink, and was quit
C16_Witness ==
    /\ mode = "binary" /\ ctx = Inert /\ file.closes = 1 /\ last.op = "Quit"
    /\ Len(log) = MaxCalls /\ Len(file.bytes) > 25

\* C18: FlintQuit leaves the Write Buffer alone and writes none of its bytes:
\* in binary mode it leaves the file as it was, so that the records still held
\* are exactly the ones missing from the file.  After FlintQuit no call changes
\* the file, and a FlintFlush/FlintBufferQuit on the Context returns false and
\* sets the cursor to 0.
C18_QuitDoesNotFlush ==
    [][/\ last'.op = "Quit"
           => (wb' = wb /\ (mode = "binary" => file'.bytes = file.bytes))
       /\ (last'.op = "Quit" /\ mode = "binary" /\ file'.closes = 1 /\ file'.fails = 0
           /\ ~dropped /\ bufs \subseteq {FALSE})
           => (Body' \o Held(wb') = sent' /\ Len(Body') = Len(sent') - wb'.head)
       /\ file.closes > 0 => file'.bytes = file.bytes
       /\ (last'.op = "Flush" /\ file.closes > 0)
           => /\ ~last'.ret
              /\ wb' = IF last'.wnull THEN wb ELSE [wb EXCEPT !.head = 0]]_vars

\* C18's case: a flush after FlintQuit has thrown away a record that a binary
\* call had left in the buffer, and the file does not hold it
C18_Witness ==
    /\ mode = "binary" /\ file.closes = 1 /\ file.fails = 0
    /\ last.op = "Flush" /\ ~last.wnull /\ last.head > 0 /\ wb.head = 0 /\ ~last.ret
    /\ Len(sent) > 0 /\ Len(Body) < Len(sent)

\* C19: FlintBufferInit(wb) returns true, sets the cursor to 0 whatever the
\* buffer held and changes neither the sink nor the Context; a flush with a
\* Context that is not NULL but inert sets the cursor to 0 too, changes nothing
\* else, and returns false.
C19_BufferInitResets ==
    [][/\ last'.op = "BufferInit"
           => (last'.ret /\ wb' = [wb EXCEPT !.head = 0] /\ UNCHANGED <<ctx, file>>)
       /\ (last'.op = "Flush" /\ ~IsOpen(ctx) /\ ~last'.wnull)
           => (~last'.ret /\ wb' = [wb EXCEPT !.head = 0] /\ UNCHANGED <<ctx, file>>)]_vars

\* C19's case: FlintBufferInit on a buffer that held bytes, while the Context
\* was open
C19_Witness ==
    last.op = "BufferInit" /\ last.head > 0 /\ wb.head = 0 /\ IsOpen(ctx) /\ last.ret

====
